---------------------------- MODULE Spec2Model ----------------------------
(***************************************************************************)
(* Model of the meteostation firmware (src/src/main.c, src/src/main.h):    *)
(* the gesture-driven view state machine of the foreground task, the MQTT  *)
(* data handler that writes the telemetry buffers, and the periodic status *)
(* publisher.  C strings are sequences of one-character strings; a char    *)
(* array is the sequence of its bytes with the trailing NUL bytes left     *)
(* out (a zero-initialised array is the empty sequence).                   *)
(***************************************************************************)
EXTENDS Integers, Sequences, FiniteSets, TLC

(* ------------------------------------------------------------------ *)
(* Program constants                                                    *)
(* ------------------------------------------------------------------ *)
MAX_BUFF == 256
MENU_SIZE == 4
CITY_SIZE == 3
CONFIRM_SIZE == 2
INT_BYTES == 4

NUL == "NUL"

PREFIX_CITY == <<"[","C","I","T","Y","]">>
PREFIX_DATA == <<"[","D","A","T","A","]">>

\* The topic mqtt_event_handler subscribes to on MQTT_EVENT_CONNECTED and the
\* topic mqtt_task publishes on.
CONFIG_MQTT_TOPIC == "test"
SubscribeTopic == CONFIG_MQTT_TOPIC
PublishTopic == CONFIG_MQTT_TOPIC

Brno == <<"B","r","n","o">>
London == <<"L","o","n","d","o","n">>
Paris == <<"P","a","r","i","s">>
CITY_CONFIG == (0 :> Brno) @@ (1 :> London) @@ (2 :> Paris)

MENU_CONFIG ==
    (0 :> <<"T","e","m","p","e","r","a","t","u","r","e">>) @@
    (1 :> <<"H","u","m","i","d","i","t","y">>) @@
    (2 :> <<"V","i","s","i","b","i","l","i","t","y">>) @@
    (3 :> <<"S","e","l","e","c","t"," ","a","r","e","a">>)

MENU_VIEWS ==
    (0 :> "temperature") @@ (1 :> "humidity") @@ (2 :> "visibility") @@ (3 :> "cities")

CONFIRM_OPTIONS == (0 :> <<"Y","e","s">>) @@ (1 :> <<"N","o">>)

Gestures == {"UP", "DOWN", "LEFT", "RIGHT"}

(* ------------------------------------------------------------------ *)
(* Bounds of the model                                                  *)
(* ------------------------------------------------------------------ *)
\* How many bytes longer than a telemetry buffer the oversized token is.
Over == 1

(* ------------------------------------------------------------------ *)
(* C strings and char arrays                                            *)
(* ------------------------------------------------------------------ *)
Min(S) == CHOOSE x \in S : \A y \in S : x <= y
Max(S) == CHOOSE x \in S : \A y \in S : x >= y

Rep(c, n) == [i \in 1..n |-> c]

\* A char array without its trailing NUL bytes.
RECURSIVE Trim(_)
Trim(m) ==
    IF m = <<>> THEN m
    ELSE IF m[Len(m)] = NUL THEN Trim(SubSeq(m, 1, Len(m) - 1))
    ELSE m

\* The bytes of array m before its first NUL; all of m when m holds none.
CStr(m) ==
    LET z == {i \in 1..Len(m) : m[i] = NUL}
    IN  IF z = {} THEN m ELSE SubSeq(m, 1, Min(z) - 1)

\* Whether the MAX_BUFF bytes of array m hold a terminator.
Terminated(m) == Len(CStr(m)) < MAX_BUFF

\* Array m with `bytes` written from its first byte on.
Overwrite(m, bytes) ==
    Trim([i \in 1..Max({Len(m), Len(bytes)}) |->
            IF i <= Len(bytes) THEN bytes[i] ELSE m[i]])

\* Variant of Contains that compares the first character only.
Contains_first_char(hay, needle) == hay # <<>> /\ hay[1] = needle[1]

\* strstr(hay, needle) != NULL
Contains(hay, needle) ==
    \E i \in 1..(Len(hay) - Len(needle) + 1) :
        SubSeq(hay, i, i + Len(needle) - 1) = needle

\* strtok on string s from position `from` (1-based) with delimiter set d:
\* skips the leading delimiters, returns the token and the position that
\* follows the delimiter ending it; null when only delimiters are left.
strtok(s, from, d) ==
    LET starts == {i \in from..Len(s) : s[i] \notin d}
    IN  IF starts = {} THEN [null |-> TRUE, tok |-> <<>>, save |-> Len(s) + 1]
        ELSE LET b == Min(starts)
                 ends == {i \in b..Len(s) : s[i] \in d}
                 e == IF ends = {} THEN Len(s) + 1 ELSE Min(ends)
             IN  [null |-> FALSE, tok |-> SubSeq(s, b, e - 1),
                  save |-> IF e <= Len(s) THEN e + 1 ELSE e]

\* The tokens strtok(NULL, ",") yields, in order, from position `from` on.
RECURSIVE CommaTokens(_, _)
CommaTokens(s, from) ==
    LET t == strtok(s, from, {","})
    IN  IF t.null THEN <<>> ELSE <<t.tok>> \o CommaTokens(s, t.save)

\* Character codes of the bytes that can land in an int.
Code(ch) == CASE ch = NUL -> 0 [] ch = "a" -> 97 [] ch = "?" -> 63 [] OTHER -> 1

RECURSIVE Pow256(_)
Pow256(n) == IF n = 0 THEN 1 ELSE 256 * Pow256(n - 1)

\* The INT_BYTES bytes of a two's complement int, low byte first, as codes.
IntBytes(c) ==
    LET top == Pow256(INT_BYTES - 1)
        u == IF c >= 0 THEN c ELSE (c + 64 * top) + 64 * top
    IN  [i \in 1..INT_BYTES |->
            IF i < INT_BYTES THEN (u \div Pow256(i - 1)) % 256
            ELSE (u \div top) + (IF c < 0 THEN 128 ELSE 0)]

\* The int whose bytes, low byte first, have the codes b.
RECURSIVE LowSum(_, _)
LowSum(b, i) == IF i >= INT_BYTES THEN 0 ELSE b[i] * Pow256(i - 1) + LowSum(b, i + 1)

BytesInt(b) ==
    LET hi == IF b[INT_BYTES] >= 128 THEN b[INT_BYTES] - 256 ELSE b[INT_BYTES]
    IN  hi * Pow256(INT_BYTES - 1) + LowSum(b, 1)

\* A little-endian int c with its low bytes replaced by `bytes`.
PokeInt(c, bytes) ==
    LET old == IntBytes(c)
    IN  BytesInt([i \in 1..INT_BYTES |->
                    IF i <= Len(bytes) THEN Code(bytes[i]) ELSE old[i]])

\* The character a byte of an int reads as.
Char(b) == CASE b = 97 -> "a" [] b = 63 -> "?" [] OTHER -> "#"

\* The C string read from the first byte of int c: its bytes up to the first
\* zero, and on into what follows the int when it holds none.
IntStr(c) ==
    LET b == IntBytes(c)
        n == Min({i \in 1..(INT_BYTES + 1) : i = INT_BYTES + 1 \/ b[i] = 0}) - 1
    IN  [i \in 1..n |-> Char(b[i])] \o (IF n = INT_BYTES THEN <<"?">> ELSE <<>>)

(* ------------------------------------------------------------------ *)
(* State                                                                *)
(* ------------------------------------------------------------------ *)
VARIABLES
    TEMPERATURE,    \* char TEMPERATURE[MAX_BUFF]
    HUMIDITY,       \* char HUMIDITY[MAX_BUFF]
    VISIBILITY,     \* char VISIBILITY[MAX_BUFF]
    CITY,           \* int CITY
    layout,         \* where the linker put the four globals (fixed per build)
    oob,            \* the buffers a write has run past the end of
    view,           \* the view function the foreground task is in
    view_idx,       \* view_menu's cursor
    city_idx,       \* view_cities' cursor
    opt_idx,        \* view_confirm's cursor
    screen,         \* the draw commands since the last clear
    mqtt_pc,        \* mqtt_task's position
    published,      \* the last message mqtt_task published
    handles,        \* i2c_bus and apds9960
    fault,          \* "none", or why the program stopped
    wr,             \* byte-level position of the handler inside its strcpy calls,
                    \* and the values it has set out to write to each field
    rd              \* byte-level position of a detail view inside its text draw

vars == <<TEMPERATURE, HUMIDITY, VISIBILITY, CITY, layout, oob, view, view_idx,
          city_idx, opt_idx, screen, mqtt_pc, published, handles, fault, wr, rd>>

uiVars == <<view, view_idx, city_idx, opt_idx, screen>>
dataVars == <<TEMPERATURE, HUMIDITY, VISIBILITY>>
raceVars == <<wr, rd>>

\* The two layouts of the globals: in declaration order with nothing between
\* them, or each followed by an object the model does not hold.
Layouts == {"declared", "scattered"}

\* The bytes an unterminated read or an unbounded copy meets behind an object
\* the model does not hold.
WILD == <<"?">>
StackJunk == {<<>>, WILD}

FieldNames == (1 :> "TEMPERATURE") @@ (2 :> "HUMIDITY") @@ (3 :> "VISIBILITY")

Globals == [T |-> TEMPERATURE, H |-> HUMIDITY, V |-> VISIBILITY, C |-> CITY, oob |-> oob]

Get(g, k) == CASE k = 1 -> g.T [] k = 2 -> g.H [] OTHER -> g.V
Set(g, k, m) ==
    CASE k = 1 -> [g EXCEPT !.T = m]
      [] k = 2 -> [g EXCEPT !.H = m]
      [] OTHER -> [g EXCEPT !.V = m]

(* ------------------------------------------------------------------ *)
(* Telemetry writes: mqtt_parse_data and mqtt_event_handler             *)
(* ------------------------------------------------------------------ *)
\* The bytes that run past field k - 1 land in what follows it: the next
\* buffer, then CITY, in the declared layout; an unmodelled object otherwise.
RECURSIVE Spill(_, _, _, _)
Spill(g, k, bytes, lay) ==
    IF lay # "declared" \/ bytes = <<>> THEN g
    ELSE IF k <= 3
         THEN LET g1 == Set(g, k, Overwrite(Get(g, k),
                                    SubSeq(bytes, 1, Min({Len(bytes), MAX_BUFF}))))
              IN  Spill(g1, k + 1, SubSeq(bytes, MAX_BUFF + 1, Len(bytes)), lay)
         ELSE [g EXCEPT !.C = PokeInt(@, bytes)]

\* strcpy(field k, tok): every byte of tok and its terminator, no bound.
strcpy(g, k, tok, lay) ==
    LET bytes == tok \o <<NUL>>
        g1 == Set(g, k, Overwrite(Get(g, k),
                           SubSeq(bytes, 1, Min({Len(bytes), MAX_BUFF}))))
        rest == SubSeq(bytes, MAX_BUFF + 1, Len(bytes))
    IN  IF rest = <<>> THEN g1
        ELSE Spill([g1 EXCEPT !.oob = @ \cup {FieldNames[k]}], k + 1, rest, lay)

\* Variant of mqtt_parse_data that takes the first token of the list for a
\* topic and maps the three after it.
mqtt_parse_data_skip_topic(g, s, save, lay) ==
    LET toks == CommaTokens(s, save)
        g1 == IF Len(toks) >= 2 THEN strcpy(g, 1, toks[2], lay) ELSE g
        g2 == IF Len(toks) >= 3 THEN strcpy(g1, 2, toks[3], lay) ELSE g1
        g3 == IF Len(toks) >= 4 THEN strcpy(g2, 3, toks[4], lay) ELSE g2
    IN  g3

\* Variant of mqtt_parse_data that empties the fields the list does not reach.
mqtt_parse_data_clearing(g, s, save, lay) ==
    LET toks == CommaTokens(s, save)
        g1 == strcpy(g, 1, IF Len(toks) >= 1 THEN toks[1] ELSE <<>>, lay)
        g2 == strcpy(g1, 2, IF Len(toks) >= 2 THEN toks[2] ELSE <<>>, lay)
        g3 == strcpy(g2, 3, IF Len(toks) >= 3 THEN toks[3] ELSE <<>>, lay)
    IN  g3

\* mqtt_parse_data(token): token 0 is the one strtok(buff, " ") returned; the
\* next ones come from strtok(NULL, ","): 1 -> TEMPERATURE, 2 -> HUMIDITY,
\* 3 -> VISIBILITY, the rest are dropped.
mqtt_parse_data(g, s, save, lay) ==
    LET toks == CommaTokens(s, save)
        g1 == IF Len(toks) >= 1 THEN strcpy(g, 1, toks[1], lay) ELSE g
        g2 == IF Len(toks) >= 2 THEN strcpy(g1, 2, toks[2], lay) ELSE g1
        g3 == IF Len(toks) >= 3 THEN strcpy(g2, 3, toks[3], lay) ELSE g2
    IN  g3

\* case MQTT_EVENT_DATA: the outcomes of handling payload `data`, each the
\* globals it leaves and whether the task died.  A payload of MAX_BUFF bytes
\* or more leaves buff unterminated (and, longer, is copied past its end):
\* the string strtok walks is then the payload and what follows it on the
\* stack, or the task dies.  strtok returning NULL hands NULL to strstr.
mqtt_event_data(g, data, lay) ==
    LET n == Len(data)
        g0 == IF n > MAX_BUFF THEN [g EXCEPT !.oob = @ \cup {"buff"}] ELSE g
        strings == IF n < MAX_BUFF THEN {data} ELSE {data \o j : j \in StackJunk}
        After(s) ==
            LET prefix == strtok(s, 1, {" "})
            IN  IF prefix.null
                THEN {[g |-> g0, fault |-> "none"], [g |-> g0, fault |-> "panic"]}
                ELSE IF Contains(prefix.tok, PREFIX_DATA)
                     THEN {[g |-> mqtt_parse_data(g0, s, prefix.save, lay), fault |-> "none"]}
                     ELSE {[g |-> g0, fault |-> "none"]}
    IN  UNION {After(s) : s \in strings}
          \cup (IF n >= MAX_BUFF THEN {[g |-> g0, fault |-> "panic"]} ELSE {})

(* ------------------------------------------------------------------ *)
(* Rendering                                                            *)
(* ------------------------------------------------------------------ *)
TITLE_WELCOME == <<" "," "," "," ","W","e","l","c","o","m","e">>
TEXT_SWIPE == <<"S","w","i","p","e"," ","t","o"," ","l","a","u","n","c","h","!">>
TITLE_TEMPERATURE == <<"-"," ","<","T","e","m","p","e","r","a","t","u","r","e"," ","-">>
TITLE_HUMIDITY == <<"-","-"," ","<"," ","H","u","m","i","d","i","t","y"," ","-","-">>
TITLE_VISIBILITY == <<"-"," ","<"," ","V","i","s","i","b","i","l","i","t","y"," ","-">>
TITLE_AREAS == <<"-","-","-","-"," ","<","A","r","e","a","s"," ","-","-","-","-">>
TEXT_SURE == <<"A","r","e"," ","y","o","u"," ","s","u","r","e","?">>
TITLE_MENU == <<"-","-","-","-","-"," ","M","e","n","u"," ","-","-","-","-","-">>
FMT_AREA == <<"A","r","e","a",":"," ">>

\* CITY_CONFIG[c]; an index outside the array reads a pointer from whatever
\* lies beside it.
CityName(c) == IF c \in DOMAIN CITY_CONFIG THEN CITY_CONFIG[c] ELSE WILD

\* sprintf(buff, "Area: %s", CITY_CONFIG[CITY])
AreaText(c) == FMT_AREA \o CityName(c)

\* The C string that starts at field k: an unterminated buffer reads on into
\* what follows it.
RECURSIVE FieldStr(_, _, _)
FieldStr(g, k, lay) ==
    IF Terminated(Get(g, k)) THEN CStr(Get(g, k))
    ELSE IF lay = "declared" /\ k < 3 THEN Get(g, k) \o FieldStr(g, k + 1, lay)
    ELSE IF lay = "declared" THEN Get(g, k) \o IntStr(g.C)
    ELSE Get(g, k) \o WILD

\* One ssd1306_display_text call: row, text, invert.
Row(r, text, invert) == <<r, text, invert>>

\* Variant of ListRows that draws the list without its highlight.
ListRows_no_cursor(items, first, cursor) ==
    [i \in 1..Cardinality(DOMAIN items) |-> Row(first + i - 1, items[i - 1], FALSE)]

\* The rows of a highlighted list drawn from row `first` on.
ListRows(items, first, cursor) ==
    [i \in 1..Cardinality(DOMAIN items) |-> Row(first + i - 1, items[i - 1], cursor = i - 1)]

\* ssd1306_clear_screen, ssd1306_contrast(0xff) and the texts of view v.
Render(v, vi, ci, oi, g, lay) ==
    CASE v = "welcome" ->
            [clear |-> TRUE, contrast |-> 255,
             rows |-> <<Row(2, TITLE_WELCOME, TRUE), Row(4, TEXT_SWIPE, TRUE)>>]
      [] v = "temperature" ->
            [clear |-> FALSE, contrast |-> 255,
             rows |-> <<Row(0, TITLE_TEMPERATURE, TRUE), Row(4, FieldStr(g, 1, lay), FALSE)>>]
      [] v = "humidity" ->
            [clear |-> FALSE, contrast |-> 255,
             rows |-> <<Row(0, TITLE_HUMIDITY, TRUE), Row(4, FieldStr(g, 2, lay), FALSE)>>]
      [] v = "visibility" ->
            [clear |-> FALSE, contrast |-> 255,
             rows |-> <<Row(0, TITLE_VISIBILITY, TRUE), Row(4, FieldStr(g, 3, lay), FALSE)>>]
      [] v = "confirm" ->
            [clear |-> FALSE, contrast |-> 255,
             rows |-> <<Row(0, TITLE_AREAS, FALSE), Row(1, TEXT_SURE, FALSE),
                        Row(7, AreaText(g.C), FALSE)>>
                      \o ListRows(CONFIRM_OPTIONS, 3, oi)]
      [] v = "cities" ->
            [clear |-> FALSE, contrast |-> 255,
             rows |-> <<Row(0, TITLE_AREAS, FALSE), Row(7, AreaText(g.C), FALSE)>>
                      \o ListRows(CITY_CONFIG, 1, ci)]
      [] OTHER ->
            [clear |-> FALSE, contrast |-> 255,
             rows |-> <<Row(0, TITLE_MENU, FALSE), Row(7, AreaText(g.C), FALSE)>>
                      \o ListRows(MENU_CONFIG, 1, vi)]

\* The views whose render reads CITY_CONFIG[CITY].
ReadsCity(v) == v \in {"menu", "cities", "confirm"}

\* The render of the loop iteration that follows a gesture: the screen of
\* view v, or the task dying on a wild CITY_CONFIG[CITY].
Draw(v, vi, ci, oi, c) ==
    \/ /\ screen' = Render(v, vi, ci, oi, [Globals EXCEPT !.C = c], layout)
       /\ fault' = "none"
    \/ /\ ReadsCity(v) /\ c \notin DOMAIN CITY_CONFIG
       /\ screen' = screen
       /\ fault' = "panic"

(* ------------------------------------------------------------------ *)
(* The foreground task: app_run and the views                           *)
(* ------------------------------------------------------------------ *)
\* A local of a view function that is not running holds -1.

Running == fault = "none"

\* Variant of cleanup that deletes nothing.
cleanup_skipped == handles

\* cleanup(): apds9960_delete, i2c_bus_delete.
cleanup == IF handles = "created" THEN "deleted" ELSE "deleted_uncreated"

\* app_run up to the first wait of view_welcome.
app_run ==
    /\ Running /\ view = "boot"
    /\ handles' = "created"
    /\ view' = "welcome"
    /\ screen' = Render("welcome", -1, -1, -1, Globals, layout)
    /\ UNCHANGED <<raceVars, dataVars, CITY, layout, oob, view_idx, city_idx, opt_idx,
                   mqtt_pc, published, fault>>

\* wait_for_gesture reading -1: exit_error, that is cleanup and exit(1).
SensorFault ==
    /\ Running /\ view # "boot"
    /\ handles' = cleanup
    /\ fault' = "sensor"
    /\ UNCHANGED <<raceVars, dataVars, CITY, layout, oob, uiVars, mqtt_pc, published>>

\* view_welcome: any gesture enters view_menu, whose cursor starts at 0.
view_welcome(g) ==
    /\ Running /\ view = "welcome"
    /\ view' = "menu"
    /\ view_idx' = 0
    /\ Draw("menu", 0, city_idx, opt_idx, CITY)
    /\ UNCHANGED <<raceVars, dataVars, CITY, layout, oob, city_idx, opt_idx, mqtt_pc,
                   published, handles>>

\* Variant of MenuCursor with UP and DOWN exchanged.
MenuCursor_swapped(i, g) ==
    CASE g = "UP" -> (i - 1 + MENU_SIZE) % MENU_SIZE
      [] g = "DOWN" -> (i + 1) % MENU_SIZE
      [] OTHER -> i

\* Variant of MenuCursor whose DOWN does not wrap.
MenuCursor_no_wrap(i, g) ==
    CASE g = "UP" -> (i + 1) % MENU_SIZE
      [] g = "DOWN" -> i - 1
      [] OTHER -> i

\* view_menu's cursor after gesture g.
MenuCursor(i, g) ==
    CASE g = "UP" -> (i + 1) % MENU_SIZE
      [] g = "DOWN" -> (i - 1 + MENU_SIZE) % MENU_SIZE
      [] OTHER -> i

\* Variant of view_menu that opens the city list on the selected city.
view_menu_from_selected(g) ==
    /\ Running /\ view = "menu"
    /\ view_idx' = MenuCursor(view_idx, g)
    /\ view' = IF g = "LEFT" THEN MENU_VIEWS[view_idx] ELSE "menu"
    /\ city_idx' = IF view' = "cities" THEN CITY ELSE city_idx
    /\ Draw(view', view_idx', city_idx', opt_idx, CITY)
    /\ UNCHANGED <<raceVars, dataVars, CITY, layout, oob, opt_idx, mqtt_pc, published, handles>>

\* view_menu: UP and DOWN move the cursor, LEFT calls MENU_VIEWS[view_idx],
\* RIGHT only breaks to the next iteration.
view_menu(g) ==
    /\ Running /\ view = "menu"
    /\ view_idx' = MenuCursor(view_idx, g)
    /\ view' = IF g = "LEFT" THEN MENU_VIEWS[view_idx] ELSE "menu"
    /\ city_idx' = IF view' = "cities" THEN 0 ELSE city_idx
    /\ Draw(view', view_idx', city_idx', opt_idx, CITY)
    /\ UNCHANGED <<raceVars, dataVars, CITY, layout, oob, opt_idx, mqtt_pc, published, handles>>

\* Variant of DetailNext whose LEFT returns to the menu as RIGHT does.
DetailNext_left_exits(v, g) == IF g \in {"LEFT", "RIGHT"} THEN "menu" ELSE v

\* view_temperature, view_humidity, view_visibility: RIGHT returns to
\* view_menu, every other gesture breaks to the next iteration.
DetailNext(v, g) == IF g = "RIGHT" THEN "menu" ELSE v

Detail(v, g) ==
    /\ Running /\ view = v
    /\ view' = DetailNext(v, g)
    /\ Draw(view', view_idx, city_idx, opt_idx, CITY)
    /\ UNCHANGED <<raceVars, dataVars, CITY, layout, oob, view_idx, city_idx, opt_idx,
                   mqtt_pc, published, handles>>

view_temperature(g) == Detail("temperature", g)
view_humidity(g) == Detail("humidity", g)
view_visibility(g) == Detail("visibility", g)

\* Variant of CityCursor whose DOWN does not wrap.
CityCursor_no_wrap(i, g) ==
    CASE g = "UP" -> (i + 1) % CITY_SIZE
      [] g = "DOWN" -> i - 1
      [] OTHER -> i

\* view_cities' cursor after gesture g.
CityCursor(i, g) ==
    CASE g = "UP" -> (i + 1) % CITY_SIZE
      [] g = "DOWN" -> (i - 1 + CITY_SIZE) % CITY_SIZE
      [] OTHER -> i

\* view_cities: UP and DOWN move the cursor, LEFT calls view_confirm (whose
\* cursor starts at 0), RIGHT returns to view_menu.
view_cities(g) ==
    /\ Running /\ view = "cities"
    /\ city_idx' = IF g = "RIGHT" THEN -1 ELSE CityCursor(city_idx, g)
    /\ view' = CASE g = "LEFT" -> "confirm" [] g = "RIGHT" -> "menu" [] OTHER -> "cities"
    /\ opt_idx' = IF g = "LEFT" THEN 0 ELSE opt_idx
    /\ Draw(view', view_idx, city_idx', opt_idx', CITY)
    /\ UNCHANGED <<raceVars, dataVars, CITY, layout, oob, view_idx, mqtt_pc, published, handles>>

\* view_confirm's cursor after gesture g.
OptCursor(i, g) ==
    CASE g = "UP" -> (i + 1) % CONFIRM_SIZE
      [] g = "DOWN" -> (i - 1 + CONFIRM_SIZE) % CONFIRM_SIZE
      [] OTHER -> i

\* Variant of CityAfterConfirm that never stores the cursor.
CityAfterConfirm_never(r, ci, c) == c

\* Variant of ConfirmReturn that takes any LEFT for a yes.
ConfirmReturn_any_left(oi, g) == g = "LEFT"

\* Variant of CitiesAfterConfirm that leaves the city list on every answer.
CitiesAfterConfirm_always_menu(r) == "menu"

\* What view_confirm returns on LEFT or RIGHT.
ConfirmReturn(oi, g) == g = "LEFT" /\ oi = 0

\* view_cities after view_confirm returned r: false breaks to the next
\* iteration of view_cities, true stores the cursor in CITY and returns.
CitiesAfterConfirm(r) == IF r THEN "menu" ELSE "cities"
CityAfterConfirm(r, ci, c) == IF r THEN ci ELSE c

\* view_confirm: UP and DOWN move the cursor, LEFT and RIGHT return to the
\* case APDS9960_LEFT of view_cities, which goes on from there.
view_confirm(g) ==
    /\ Running /\ view = "confirm"
    /\ IF g \in {"LEFT", "RIGHT"}
       THEN /\ view' = CitiesAfterConfirm(ConfirmReturn(opt_idx, g))
            /\ CITY' = CityAfterConfirm(ConfirmReturn(opt_idx, g), city_idx, CITY)
            /\ opt_idx' = -1
            /\ city_idx' = IF view' = "menu" THEN -1 ELSE city_idx
       ELSE /\ view' = "confirm"
            /\ CITY' = CITY
            /\ opt_idx' = OptCursor(opt_idx, g)
            /\ city_idx' = city_idx
    /\ Draw(view', view_idx, city_idx', opt_idx', CITY')
    /\ UNCHANGED <<raceVars, dataVars, layout, oob, view_idx, mqtt_pc, published, handles>>

(* ------------------------------------------------------------------ *)
(* The MQTT task                                                        *)
(* ------------------------------------------------------------------ *)
\* esp_mqtt_client_init returned a client: on to the publishing loop.
mqtt_init_ok ==
    /\ Running /\ mqtt_pc = "init"
    /\ mqtt_pc' = "loop"
    /\ UNCHANGED <<raceVars, dataVars, CITY, layout, oob, uiVars, published, handles, fault>>

\* esp_mqtt_client_init returned NULL: exit_error.
mqtt_init_fail ==
    /\ Running /\ mqtt_pc = "init"
    /\ handles' = cleanup
    /\ fault' = "mqtt_init"
    /\ UNCHANGED <<raceVars, dataVars, CITY, layout, oob, uiVars, mqtt_pc, published>>

\* sprintf(buff, "%s %s", PREFIX_CITY, CITY_CONFIG[CITY])
StatusMessage(c) == PREFIX_CITY \o <<" ">> \o CityName(c)

\* One iteration of mqtt_task's loop: publish the status message, or die on
\* a wild CITY_CONFIG[CITY].
mqtt_publish ==
    /\ Running /\ mqtt_pc = "loop"
    /\ \/ /\ published' = StatusMessage(CITY)
          /\ fault' = fault
       \/ /\ CITY \notin DOMAIN CITY_CONFIG
          /\ published' = published
          /\ fault' = "panic"
    /\ UNCHANGED <<raceVars, dataVars, CITY, layout, oob, uiVars, mqtt_pc, handles>>

\* mqtt_event_handler, case MQTT_EVENT_DATA, on payload `data`.
mqtt_event_handler(data) ==
    /\ Running /\ mqtt_pc = "loop"
    /\ \E r \in mqtt_event_data(Globals, data, layout) :
          /\ TEMPERATURE' = r.g.T
          /\ HUMIDITY' = r.g.H
          /\ VISIBILITY' = r.g.V
          /\ CITY' = r.g.C
          /\ oob' = r.g.oob
          /\ fault' = r.fault
    /\ UNCHANGED <<raceVars, layout, uiVars, mqtt_pc, published, handles>>

(* ------------------------------------------------------------------ *)
(* Inbound payloads                                                     *)
(* ------------------------------------------------------------------ *)
MsgSpecExample == <<"[","D","A","T","A","]"," ","t","o","p","i","c",",","2","1",".","5",",","6","0",",","1","0","k","m">>
MsgFull == <<"[","D","A","T","A","]"," ","2","1",".","5",",","6","0",",","1","0","k","m">>
MsgTwo == <<"[","D","A","T","A","]"," ","t","o","p","i","c",",","2","1",".","5">>
MsgOne == <<"[","D","A","T","A","]"," ","2","1",".","5">>
MsgTagOnly == <<"[","D","A","T","A","]">>
MsgEmbedded == <<"x","[","D","A","T","A","]"," ","2","1",".","5">>
MsgOther == <<"h","e","l","l","o"," ","1",",","2",",","3">>
MsgCommas == <<"[","D","A","T","A","]"," ",",",",","2","1",".","5",",">>
MsgSpaces == <<" "," ">>
MsgEmpty == <<>>
\* A visibility token of MAX_BUFF + Over bytes.
MsgBigV == MsgTwo \o <<",">> \o Rep("a", MAX_BUFF + Over)

Inbound ==
    {MsgSpecExample, MsgFull, MsgTwo, MsgOne, MsgTagOnly, MsgEmbedded, MsgOther,
     MsgCommas, MsgSpaces, MsgEmpty, MsgBigV}

(* ------------------------------------------------------------------ *)
(* Specification                                                        *)
(* ------------------------------------------------------------------ *)
\* app_main has created mqtt_task and is about to call app_run.
Init ==
    /\ TEMPERATURE = <<>>
    /\ HUMIDITY = <<>>
    /\ VISIBILITY = <<>>
    /\ CITY = 0
    /\ layout \in Layouts
    /\ oob = {}
    /\ view = "boot"
    /\ view_idx = -1
    /\ city_idx = -1
    /\ opt_idx = -1
    /\ screen = [clear |-> FALSE, contrast |-> 0, rows |-> <<>>]
    /\ mqtt_pc = "init"
    /\ published = <<>>
    /\ handles = "none"
    /\ fault = "none"
    /\ wr = [todo |-> <<>>, pos |-> 0, written |-> [k \in DOMAIN FieldNames |-> {<<>>}]]
    /\ rd = [phase |-> "idle", pos |-> 0, len |-> 0, buf |-> <<>>]

Next ==
    \/ app_run
    \/ SensorFault
    \/ \E g \in Gestures :
          \/ view_welcome(g)
          \/ view_menu(g)
          \/ view_temperature(g)
          \/ view_humidity(g)
          \/ view_visibility(g)
          \/ view_cities(g)
          \/ view_confirm(g)
    \/ mqtt_init_ok
    \/ mqtt_init_fail
    \/ mqtt_publish
    \/ \E data \in Inbound \cup {published} : mqtt_event_handler(data)

Spec == Init /\ [][Next]_vars

\* The scheduler runs both tasks: app_main goes on to app_run, mqtt_task gets
\* through its initialisation and goes round its loop every five seconds.
\* Gestures and inbound messages come from outside and are not forced.
SpecLive ==
    /\ Spec
    /\ WF_vars(app_run)
    /\ WF_vars(mqtt_init_ok \/ mqtt_init_fail)
    /\ WF_vars(mqtt_publish)

(* ------------------------------------------------------------------ *)
(* Byte-level interleaving of the handler's strcpy calls with a detail  *)
(* view's text draw.  Neither side takes a lock: mqtt_parse_data copies *)
(* into the global buffer byte after byte, and the view computes        *)
(* strlen(FIELD) and then hands FIELD and that length to the display,   *)
(* which reads the bytes.                                               *)
(* ------------------------------------------------------------------ *)
DetailViews == (1 :> "temperature") @@ (2 :> "humidity") @@ (3 :> "visibility")
DetailTitles == (1 :> TITLE_TEMPERATURE) @@ (2 :> TITLE_HUMIDITY) @@ (3 :> TITLE_VISIBILITY)

\* The field the current detail view draws.
ShownField == CHOOSE k \in DOMAIN DetailViews : DetailViews[k] = view

\* Byte i (from 0) of array m.
ByteAt(m, i) == IF i < Len(m) THEN m[i + 1] ELSE NUL

\* Array m with byte i (from 0) set to b.
PutByte(m, i, b) ==
    Trim([j \in 1..Max({Len(m), i + 1}) |->
            IF j = i + 1 THEN b ELSE IF j <= Len(m) THEN m[j] ELSE NUL])

\* The payloads the byte-level handler receives.
RaceInbound == {MsgFull, MsgSpecExample}

\* The strcpy calls mqtt_parse_data makes for payload `data`, in order, each
\* the field and the bytes it copies.
Copies(data) ==
    LET toks == CommaTokens(data, strtok(data, 1, {" "}).save)
    IN  [i \in 1..Min({3, Len(toks)}) |-> <<i, toks[i] \o <<NUL>>>>]

\* The handler has taken payload `data` into buff and split it; its strcpy
\* calls are about to run.
race_handler(data) ==
    /\ wr.todo = <<>>
    /\ wr' = [wr EXCEPT
                 !.todo = Copies(data),
                 !.pos = 0,
                 !.written = [k \in DOMAIN @ |->
                                IF k \in DOMAIN Copies(data)
                                THEN @[k] \cup {CStr(Copies(data)[k][2])}
                                ELSE @[k]]]
    /\ UNCHANGED <<dataVars, CITY, layout, oob, uiVars, mqtt_pc, published,
                   handles, fault, rd>>

\* strcpy copies its next byte.
race_strcpy_byte ==
    /\ wr.todo # <<>>
    /\ LET k == Head(wr.todo)[1]
           bytes == Head(wr.todo)[2]
           g == Set(Globals, k, PutByte(Get(Globals, k), wr.pos, bytes[wr.pos + 1]))
           last == wr.pos + 1 = Len(bytes)
       IN  /\ TEMPERATURE' = g.T
           /\ HUMIDITY' = g.H
           /\ VISIBILITY' = g.V
           /\ wr' = [wr EXCEPT
                        !.todo = IF last THEN Tail(@) ELSE @,
                        !.pos = IF last THEN 0 ELSE @ + 1]
    /\ UNCHANGED <<CITY, layout, oob, uiVars, mqtt_pc, published, handles, fault, rd>>

\* A gesture other than RIGHT in a detail view: the next iteration clears
\* the screen, draws the title and calls strlen on the field.
race_render(g) ==
    /\ rd.phase = "idle" /\ g # "RIGHT"
    /\ rd' = [phase |-> "strlen", pos |-> 0, len |-> 0, buf |-> <<>>]
    /\ screen' = [clear |-> FALSE, contrast |-> 255,
                  rows |-> <<Row(0, DetailTitles[ShownField], TRUE)>>]
    /\ UNCHANGED <<dataVars, CITY, layout, oob, view, view_idx, city_idx, opt_idx,
                   mqtt_pc, published, handles, fault, wr>>

\* strlen reads its next byte.
race_strlen_byte ==
    /\ rd.phase = "strlen"
    /\ rd' = IF ByteAt(Get(Globals, ShownField), rd.pos) = NUL
             THEN [rd EXCEPT !.phase = "text", !.len = rd.pos, !.pos = 0]
             ELSE [rd EXCEPT !.pos = @ + 1]
    /\ UNCHANGED <<dataVars, CITY, layout, oob, uiVars, mqtt_pc, published,
                   handles, fault, wr>>

\* ssd1306_display_text reads the next of its len bytes.
race_text_byte ==
    /\ rd.phase = "text" /\ rd.pos < rd.len
    /\ rd' = [rd EXCEPT !.buf = Append(@, ByteAt(Get(Globals, ShownField), rd.pos)),
                        !.pos = @ + 1]
    /\ UNCHANGED <<dataVars, CITY, layout, oob, uiVars, mqtt_pc, published,
                   handles, fault, wr>>

\* ssd1306_display_text has read its len bytes: the text is on the screen and
\* the view waits for the next gesture.
race_text_done ==
    /\ rd.phase = "text" /\ rd.pos = rd.len
    /\ screen' = [screen EXCEPT !.rows = Append(@, Row(4, rd.buf, FALSE))]
    /\ rd' = [rd EXCEPT !.phase = "idle"]
    /\ UNCHANGED <<dataVars, CITY, layout, oob, view, view_idx, city_idx, opt_idx,
                   mqtt_pc, published, handles, fault, wr>>

\* A detail view has drawn its screen and waits for a gesture; the MQTT task
\* is in its loop; no message has arrived yet.
RaceInit ==
    /\ TEMPERATURE = <<>>
    /\ HUMIDITY = <<>>
    /\ VISIBILITY = <<>>
    /\ CITY = 0
    /\ layout \in Layouts
    /\ oob = {}
    /\ \E k \in DOMAIN DetailViews :
          /\ view = DetailViews[k]
          /\ view_idx = k - 1
    /\ city_idx = -1
    /\ opt_idx = -1
    /\ screen = Render(view, view_idx, city_idx, opt_idx, Globals, layout)
    /\ mqtt_pc = "loop"
    /\ published = <<>>
    /\ handles = "created"
    /\ fault = "none"
    /\ wr = [todo |-> <<>>, pos |-> 0, written |-> [k \in DOMAIN DetailViews |-> {<<>>}]]
    /\ rd = [phase |-> "idle", pos |-> 0, len |-> 0, buf |-> <<>>]

RaceNext ==
    \/ \E data \in RaceInbound : race_handler(data)
    \/ race_strcpy_byte
    \/ \E g \in Gestures : race_render(g)
    \/ race_strlen_byte
    \/ race_text_byte
    \/ race_text_done

SpecRace == RaceInit /\ [][RaceNext]_vars

(* ------------------------------------------------------------------ *)
(* Claims                                                               *)
(* ------------------------------------------------------------------ *)
\* The text row a detail view has drawn (row 4), once its draw is complete.
DetailDrawn == view \in {"temperature", "humidity", "visibility"}
               /\ rd.phase = "idle" /\ Len(screen.rows) = 2
DetailText == screen.rows[2][2]

\* C1: whenever a detail view has finished drawing its field while the
\* handler writes it, the text drawn is one of the complete values the
\* handler has written to that field, or the initial empty value: never a
\* mix of the bytes of two values.
C1_NoTornRead == DetailDrawn => DetailText \in wr.written[ShownField]

\* The handler's step on a payload that fits the receive buffer and that it
\* accepts.
Fits(data) == Len(data) < MAX_BUFF
Handled(data) == mqtt_event_handler(data) /\ fault' = "none"

S_topic == <<"t","o","p","i","c">>
S_21_5 == <<"2","1",".","5">>
S_60 == <<"6","0">>
S_10km == <<"1","0","k","m">>

\* C2: LEFT in view_cities opens view_confirm on the cursor c without
\* touching CITY; UP and DOWN in view_confirm keep c and CITY; RIGHT, and
\* LEFT with the cursor on No, leave CITY as it was; LEFT with the cursor on
\* Yes sets CITY to c, a valid index.
C2_ConfirmOutcome ==
    [][ /\ view_cities("LEFT") =>
             view' = "confirm" /\ city_idx' = city_idx /\ CITY' = CITY
        /\ \A g \in {"UP", "DOWN"} :
             view_confirm(g) =>
                 view' = "confirm" /\ city_idx' = city_idx /\ CITY' = CITY
        /\ view_confirm("RIGHT") => CITY' = CITY
        /\ (view_confirm("LEFT") /\ opt_idx = 1) => CITY' = CITY
        /\ (view_confirm("LEFT") /\ opt_idx = 0) =>
             CITY' = city_idx /\ CITY' \in 0..(CITY_SIZE - 1)
      ]_vars

\* A city other than the initial one has been committed and the menu is back.
C2_Witness == view = "menu" /\ CITY = 2 /\ oob = {}

C4_TopicSkipped ==
    [][ Handled(MsgSpecExample) =>
          /\ CStr(TEMPERATURE') = S_21_5
          /\ CStr(HUMIDITY') = S_60
          /\ CStr(VISIBILITY') = S_10km ]_vars

\* C4 as the code has it: token 0 is the "[DATA]" tag itself and the list
\* after it is temperature, humidity, visibility, so the claimed payload
\* stores topic, 21.5 and 60, while "[DATA] 21.5,60,10km" stores 21.5, 60
\* and 10km; a temperature view drawn while the field reads 21.5 shows 21.5.
C4_Positional ==
    [][ /\ Handled(MsgSpecExample) =>
             /\ CStr(TEMPERATURE') = S_topic
             /\ CStr(HUMIDITY') = S_21_5
             /\ CStr(VISIBILITY') = S_60
        /\ Handled(MsgFull) =>
             /\ CStr(TEMPERATURE') = S_21_5
             /\ CStr(HUMIDITY') = S_60
             /\ CStr(VISIBILITY') = S_10km
        /\ ((\E g \in Gestures : view_menu(g) \/ view_temperature(g))
              /\ view' = "temperature" /\ fault' = "none"
              /\ CStr(TEMPERATURE) = S_21_5) =>
             screen'.rows[2] = Row(4, S_21_5, FALSE)
      ]_vars

\* The three fields hold 21.5, 60, 10km and the temperature view shows 21.5.
C4_Witness ==
    /\ CStr(TEMPERATURE) = S_21_5 /\ CStr(HUMIDITY) = S_60 /\ CStr(VISIBILITY) = S_10km
    /\ view = "temperature" /\ screen.rows[2] = Row(4, S_21_5, FALSE)

ListLen(data) == Len(CommaTokens(data, strtok(data, 1, {" "}).save))

C6_OtherTagDiscarded ==
    [][ \A data \in Inbound \cup {published} :
          (strtok(data, 1, {" "}).tok # PREFIX_DATA /\ mqtt_event_handler(data)) =>
              UNCHANGED <<TEMPERATURE, HUMIDITY, VISIBILITY, CITY>> ]_vars

\* C7: no write has run past the end of a buffer and every field holds its
\* terminator, so that its string has at most MAX_BUFF - 1 bytes.
C7_Bounded ==
    /\ oob = {}
    /\ \A k \in 1..3 : Len(FieldStr(Globals, k, layout)) <= MAX_BUFF - 1

\* C8: in the menu UP moves the cursor from i to (i + 1) mod MENU_SIZE and
\* DOWN to (i - 1 + MENU_SIZE) mod MENU_SIZE, each undoes the other, and the
\* cursor stays within 0..MENU_SIZE - 1.
C8_MenuCycle ==
    [][ /\ view_menu("UP") =>
             /\ view' = "menu" /\ view_idx' = (view_idx + 1) % MENU_SIZE
             /\ MenuCursor(view_idx', "DOWN") = view_idx
        /\ view_menu("DOWN") =>
             /\ view' = "menu" /\ view_idx' = (view_idx + MENU_SIZE - 1) % MENU_SIZE
             /\ MenuCursor(view_idx', "UP") = view_idx
        /\ (view' = "menu") => view_idx' \in 0..(MENU_SIZE - 1)
      ]_vars

\* The menu cursor is on its last entry.
C8_Witness == view = "menu" /\ view_idx = MENU_SIZE - 1

\* C9: RIGHT in the menu keeps the view, the cursor, CITY and the fields, and
\* the program goes on.
C9_RightIsNoOp ==
    [][ view_menu("RIGHT") =>
          /\ view' = "menu" /\ view_idx' = view_idx
          /\ UNCHANGED <<CITY, TEMPERATURE, HUMIDITY, VISIBILITY>>
          /\ fault' = "none" ]_vars

\* C10: CITY is an index into CITY_CONFIG.
C10_CityValid == CITY \in 0..(CITY_SIZE - 1)

\* C11: from the welcome view every gesture enters the menu at index 0; UP
\* moves 0 to 1 and 1 to 2; LEFT at index 2 enters view_visibility, which
\* draws the visibility field as it stands; RIGHT there returns to the menu,
\* still at index 2.
C11_EndToEnd ==
    [][ /\ \A g \in Gestures :
             view_welcome(g) => view' = "menu" /\ view_idx' = 0
        /\ (view_menu("UP") /\ view_idx = 0) => view' = "menu" /\ view_idx' = 1
        /\ (view_menu("UP") /\ view_idx = 1) => view' = "menu" /\ view_idx' = 2
        /\ (view_menu("LEFT") /\ view_idx = 2) =>
             /\ view' = "visibility" /\ view_idx' = 2 /\ fault' = "none"
             /\ screen'.rows = <<Row(0, TITLE_VISIBILITY, TRUE),
                                 Row(4, FieldStr(Globals, 3, layout), FALSE)>>
        /\ (view' = "visibility") => view_idx' = 2
        /\ view_visibility("RIGHT") => view' = "menu" /\ view_idx' = 2
      ]_vars

\* The visibility view is up, entered from index 2, showing the stored 10km.
C11_Witness ==
    /\ view = "visibility" /\ view_idx = 2 /\ CStr(VISIBILITY) = S_10km
    /\ screen.rows[2] = Row(4, S_10km, FALSE)

\* C12: in a detail view UP, DOWN and LEFT stay in the view and only draw it
\* again; RIGHT returns to the menu at the index the view was entered from
\* (the index whose MENU_VIEWS entry is the view); no gesture there changes
\* CITY or a field.
C12_DetailNoOps ==
    [][ \A k \in DOMAIN DetailViews : \A g \in Gestures :
          Detail(DetailViews[k], g) =>
              /\ UNCHANGED <<CITY, TEMPERATURE, HUMIDITY, VISIBILITY, view_idx>>
              /\ MENU_VIEWS[view_idx] = DetailViews[k]
              /\ IF g = "RIGHT"
                 THEN view' = "menu"
                 ELSE /\ view' = DetailViews[k] /\ fault' = "none"
                      /\ screen'.rows = <<Row(0, DetailTitles[k], TRUE),
                                          Row(4, FieldStr(Globals, k, layout), FALSE)>>
      ]_vars

\* The humidity view is up, entered from index 1, in a run that has already
\* committed a city.
C12_Witness == view = "humidity" /\ view_idx = 1 /\ CITY = 2 /\ screen.rows[2] = Row(4, S_60, FALSE)

\* C13: a read of -1 in any view runs cleanup on the two created handles and
\* ends the program: the view, the cursors, the screen and CITY stay as the
\* read found them, and no step follows.
C13_SensorFaultFatal ==
    [][ /\ SensorFault =>
             /\ handles = "created" /\ handles' = "deleted"
             /\ fault' = "sensor"
             /\ UNCHANGED <<view, view_idx, city_idx, opt_idx, screen, CITY,
                            TEMPERATURE, HUMIDITY, VISIBILITY>>
        /\ (fault = "sensor") => UNCHANGED vars
      ]_vars

\* The read failed in view_confirm with the cursor on No.
C13_Witness ==
    fault = "sensor" /\ handles = "deleted" /\ view = "confirm" /\ opt_idx = 1

\* C14: after a sensor fault or a failed esp_mqtt_client_init the program
\* eventually runs again from the start and shows the welcome view.
C14_RestartsAfterFault ==
    (fault \in {"sensor", "mqtt_init"}) ~> (fault = "none" /\ view = "welcome")

\* The payloads without the tag, without all three fields, empty, or made of
\* delimiters only.
Malformed == {MsgOther, MsgTagOnly, MsgOne, MsgTwo, MsgCommas, MsgSpaces, MsgEmpty}

\* C15: the handler gets through every malformed payload without a fault and
\* mqtt_task stays in its loop, ready for the next message.
C15_MalformedAbsorbed ==
    [][ \A data \in Malformed :
          mqtt_event_handler(data) => fault' = "none" /\ mqtt_pc' = "loop" ]_vars

\* C16: every status message mqtt_task builds is "[CITY] " followed by the
\* entry of CITY_CONFIG that CITY selects at that moment.
C16_StatusNamesCity ==
    [][ mqtt_publish =>
          /\ CITY \in DOMAIN CITY_CONFIG
          /\ published' = PREFIX_CITY \o <<" ">> \o CITY_CONFIG[CITY] ]_vars

\* One gesture handled by whichever view function is running.
ViewStep(g) ==
    \/ view_welcome(g) \/ view_menu(g)
    \/ view_temperature(g) \/ view_humidity(g) \/ view_visibility(g)
    \/ view_cities(g) \/ view_confirm(g)

\* C17 as claimed: no step of a view changes a field or CITY.
C17_ViewNeverWrites ==
    [][ \A g \in Gestures :
          ViewStep(g) => UNCHANGED <<TEMPERATURE, HUMIDITY, VISIBILITY, CITY>> ]_vars

\* C17 as the code has it: no step of a view changes TEMPERATURE, HUMIDITY or
\* VISIBILITY; CITY is written by the views, on LEFT over Yes in view_confirm
\* and on no other gesture, and read by mqtt_task, whose loop changes neither
\* CITY nor a field and builds its message from CITY.
C17_Writers ==
    [][ /\ \A g \in Gestures :
             ViewStep(g) =>
                 /\ UNCHANGED <<TEMPERATURE, HUMIDITY, VISIBILITY>>
                 /\ IF view = "confirm" /\ g = "LEFT" /\ opt_idx = 0
                    THEN CITY' = city_idx
                    ELSE CITY' = CITY
        /\ mqtt_publish =>
             /\ UNCHANGED <<TEMPERATURE, HUMIDITY, VISIBILITY, CITY>>
             /\ (fault' = "none") => published' = StatusMessage(CITY)
      ]_vars

\* A view has stored city 1 and mqtt_task has read it into its message.
C17_Witness ==
    CITY = 1 /\ published = PREFIX_CITY \o <<" ">> \o London /\ oob = {}

\* What the screen holds while view_menu, view_cities or view_confirm
\* waits: the title, the area line in row 7 and the list with the entry under
\* the cursor inverted, and nothing from before the clear.
ListScreen(title, items, first, cursor) ==
    /\ screen.clear = FALSE
    /\ Len(screen.rows) = 2 + Cardinality(DOMAIN items)
    /\ screen.rows[1] = Row(0, title, FALSE)
    /\ screen.rows[2][1] = 7 /\ screen.rows[2][3] = FALSE
    /\ \A i \in DOMAIN items :
          screen.rows[3 + i] = Row(first + i, items[i], i = cursor)

\* C18: while a view waits for a gesture the screen holds, after a clear and
\* with contrast 0xff, exactly the drawing of that view with its cursor where
\* it now stands; and every gesture a view handles is followed by such a
\* drawing, with the field or area text read at that moment, before the next
\* wait.
C18_RedrawBeforeWait ==
    /\ [](Running /\ view # "boot" =>
            /\ screen.contrast = 255
            /\ CASE view = "welcome" ->
                      /\ screen.clear = TRUE
                      /\ screen.rows = <<Row(2, TITLE_WELCOME, TRUE), Row(4, TEXT_SWIPE, TRUE)>>
                 [] view = "menu" -> ListScreen(TITLE_MENU, MENU_CONFIG, 1, view_idx)
                 [] view = "cities" -> ListScreen(TITLE_AREAS, CITY_CONFIG, 1, city_idx)
                 [] view = "confirm" ->
                      /\ screen.clear = FALSE
                      /\ Len(screen.rows) = 3 + CONFIRM_SIZE
                      /\ screen.rows[1] = Row(0, TITLE_AREAS, FALSE)
                      /\ screen.rows[2] = Row(1, TEXT_SURE, FALSE)
                      /\ screen.rows[3][1] = 7 /\ screen.rows[3][3] = FALSE
                      /\ \A i \in DOMAIN CONFIRM_OPTIONS :
                            screen.rows[4 + i] = Row(3 + i, CONFIRM_OPTIONS[i], i = opt_idx)
                 [] OTHER ->
                      /\ screen.clear = FALSE
                      /\ Len(screen.rows) = 2
                      /\ screen.rows[1] = Row(0, DetailTitles[ShownField], TRUE)
                      /\ screen.rows[2][1] = 4 /\ screen.rows[2][3] = FALSE)
    /\ [][ \A g \in Gestures :
             (ViewStep(g) /\ fault' = "none") =>
                 IF view' \in {"menu", "cities"}
                 THEN screen'.rows[2][2] = FMT_AREA \o CityName(CITY')
                 ELSE IF view' = "confirm"
                 THEN screen'.rows[3][2] = FMT_AREA \o CityName(CITY')
                 ELSE \A k \in DOMAIN DetailViews :
                         view' = DetailViews[k] =>
                             screen'.rows[2][2] = FieldStr(Globals, k, layout) ]_vars

\* view_confirm waits with its cursor on No, which the screen shows inverted.
C18_Witness ==
    /\ Running /\ view = "confirm" /\ opt_idx = 1
    /\ screen.rows[5] = Row(4, <<"N","o">>, TRUE)

\* The view functions view_menu can be in or call.
MenuViews == {"menu", "temperature", "humidity", "visibility", "cities", "confirm"}

\* C19: unless the sensor read or esp_mqtt_client_init has failed, the
\* foreground task is alive in app_run's start, in view_welcome or in exactly
\* one of the six views behind it, where every gesture is handled.
C19_NoTerminalState ==
    (fault \notin {"sensor", "mqtt_init"}) =>
        /\ Running
        /\ view \in {"boot", "welcome"} \cup MenuViews

\* The handler takes the payload for data: its first token holds the tag.
Accepted(data) ==
    LET prefix == strtok(data, 1, {" "})
    IN  ~prefix.null /\ Contains(prefix.tok, PREFIX_DATA)

\* The k-th token of the list that follows the tag.
ListToken(data, k) == CommaTokens(data, strtok(data, 1, {" "}).save)[k]

\* C20: an accepted message leaves each field it lists reading as the value
\* it listed and draws nothing; what a field reads as is then changed by no
\* gesture; and every drawing of a detail view shows what its field reads as
\* at that moment.
C20_RenderShowsStored ==
    [][ /\ \A data \in Inbound \cup {published} : \A k \in 1..3 :
             (Handled(data) /\ Accepted(data) /\ k <= ListLen(data)) =>
                 /\ FieldStr(Globals, k, layout)' = ListToken(data, k)
                 /\ screen' = screen
        /\ \A g \in Gestures : \A k \in 1..3 :
             ViewStep(g) =>
                 /\ FieldStr(Globals, k, layout)' = FieldStr(Globals, k, layout)
                 /\ (view' = DetailViews[k] /\ fault' = "none") =>
                        screen'.rows[2] = Row(4, FieldStr(Globals, k, layout)', FALSE)
      ]_vars

\* C21: in view_cities UP moves the cursor from c to (c + 1) mod CITY_SIZE
\* and DOWN to (c - 1 + CITY_SIZE) mod CITY_SIZE, each undoes the other, and
\* the cursor stays within 0..CITY_SIZE - 1; UP, DOWN and RIGHT leave CITY as
\* it was, and RIGHT returns to the menu.
C21_CityCycle ==
    [][ /\ view_cities("UP") =>
             /\ view' = "cities" /\ city_idx' = (city_idx + 1) % CITY_SIZE
             /\ CityCursor(city_idx', "DOWN") = city_idx
             /\ CITY' = CITY
        /\ view_cities("DOWN") =>
             /\ view' = "cities" /\ city_idx' = (city_idx + CITY_SIZE - 1) % CITY_SIZE
             /\ CityCursor(city_idx', "UP") = city_idx
             /\ CITY' = CITY
        /\ view_cities("RIGHT") =>
             view' = "menu" /\ view_idx' = view_idx /\ CITY' = CITY
        /\ (view' = "cities") => city_idx' \in 0..(CITY_SIZE - 1)
      ]_vars

\* The city list waits with its cursor on the last city, shown inverted,
\* while the first city is still the selected one.
C21_Witness ==
    /\ Running /\ view = "cities" /\ city_idx = CITY_SIZE - 1 /\ CITY = 0
    /\ screen.rows[5] = Row(3, Paris, TRUE)

\* C22: view_cities called from the menu starts with its cursor on city 0,
\* whatever CITY is and wherever the cursor stood at the last return; and
\* view_confirm called from view_cities starts with its cursor on Yes,
\* whatever answer the last call ended with.
C22_EntryAtZero ==
    [][ /\ (view = "menu" /\ view' = "cities") =>
             /\ city_idx' = 0
             /\ (fault' = "none") => screen'.rows[3] = Row(1, Brno, TRUE)
        /\ (view = "cities" /\ view' = "confirm") =>
             /\ opt_idx' = 0
             /\ (fault' = "none") => screen'.rows[4] = Row(3, <<"Y","e","s">>, TRUE)
        /\ (view' = "cities" /\ view \notin {"menu", "cities", "confirm"}) => FALSE
        /\ (view' = "confirm" /\ view \notin {"cities", "confirm"}) => FALSE
      ]_vars

\* The city list has just been opened again, cursor on the first city, after
\* the last city was committed.
C22_Witness ==
    /\ Running /\ view = "cities" /\ city_idx = 0 /\ CITY = 2 /\ opt_idx = -1
    /\ screen.rows[3] = Row(1, Brno, TRUE)

\* C23: mqtt_task publishes on the topic the handler subscribes to, and in
\* every state the handler, given the status message of any city of
\* CITY_CONFIG, has one outcome: no fault, and the fields, CITY and the
\* overrun record as they were.
C23_EchoDiscarded ==
    /\ PublishTopic = SubscribeTopic
    /\ \A c \in DOMAIN CITY_CONFIG :
          mqtt_event_data(Globals, PREFIX_CITY \o <<" ">> \o CITY_CONFIG[c], layout)
              = {[g |-> Globals, fault |-> "none"]}

\* mqtt_task has published the status of the last city, which the broker
\* hands back, while the fields hold values.
C23_Witness ==
    /\ Running /\ mqtt_pc = "loop"
    /\ published = PREFIX_CITY \o <<" ">> \o Paris
    /\ CStr(TEMPERATURE) = S_21_5 /\ CStr(VISIBILITY) = S_10km

\* C24: when esp_mqtt_client_init fails, exit_error runs cleanup on handles
\* that app_run has created, and not while a view waits in its gesture read
\* on them.
C24_CleanupAfterCreate ==
    [][ mqtt_init_fail => handles = "created" /\ view \notin {"welcome"} \cup MenuViews ]_vars

=============================================================================
